---- MODULE Spec2Model ----
(***************************************************************************)
(* Model of backend/app/auth/jwks_cache.py (class JWKSCache): the JWKS key *)
(* cache, its refresh lock, the fetch retry loop, the background refresh   *)
(* task and the synchronous lookup get_key / get_signing_key.              *)
(*                                                                         *)
(* Scheduling is asyncio's: one task runs at a time and is pre-empted only *)
(* at an await that suspends.  Every action below is the code between two  *)
(* such suspension points.  The suspension points of the module are        *)
(*   - client.get(...)            (line 92, pc = "request")                *)
(*   - asyncio.sleep(backoff)     (line 112, pc = "backoff")               *)
(*   - self._lock acquisition     (line 128, pc = "acquire", only when the *)
(*                                 lock is taken or has waiters)           *)
(*   - asyncio.sleep(wait_time)   (line 158, pc = "sleep_stale")           *)
(*   - asyncio.sleep(ttl_seconds) (line 164, pc = "sleep_ttl")             *)
(* Leaving `async with httpx.AsyncClient` awaits the client's close; a run *)
(* that suspends there is the run in which the response arrived that much  *)
(* later, so the close is folded into the response step.                   *)
(*                                                                         *)
(* Time is discrete, in seconds.  The code reads the clock only to take    *)
(* the difference time.time() - self._cache_age and to sleep, so the      *)
(* model keeps that difference (cache_age, which stops counting at the TTL *)
(* because every age >= ttl_seconds behaves alike) and, per sleeping task, *)
(* the time left to sleep.  A task that sleeps wakes at its deadline: time *)
(* does not pass a deadline, a pending cancellation or a ready task.  A    *)
(* request to the upstream may take any time.                              *)
(***************************************************************************)
EXTENDS Integers, Sequences, FiniteSets, TLC

\* ---------------------------------------------------------------- bounds
NumCallers == 2          \* concurrent get_signing_key callers
MaxBgTasks == 2          \* background tasks that can be created in a run
NumRequests == 2         \* HTTP requests in progress at once

\* ------------------------------------------------ configuration, constants
\* Constructor arguments of JWKSCache; the values are a small configuration
\* (ttl_seconds=5, initial_backoff=1) with the default max_retries.
TtlSeconds     == 5
MaxRetries     == 3
InitialBackoff == 1
\* asyncio.sleep(60) in the `except Exception` handler of
\* _background_refresh (line 172).  No action below sleeps it: every
\* Exception raised under the handler's try is caught inside _refresh_cache
\* (lines 145-147), so the handler is not reached.
Cooldown       == 60

Callers == 1 .. NumCallers
BgTasks == { 100 + i : i \in 1 .. MaxBgTasks }
Procs   == Callers \cup BgTasks

NoOne  == 0              \* None for a task reference / the lock is free
NoTime == -1             \* _cache_age is None

\* --------------------------------------------------------- JWKS documents
JWK(k, m) == [kid |-> k, mat |-> m]

\* the kid the callers ask for: the documents below have it with good key
\* material, with bad key material, or not at all
Kids == {"k1"}

\* What the endpoint can publish: a JWKS document is the list under "keys".
\* The endpoint answers a request with any of them (the provider rotates its
\* keys at will).
\* kid = "" is a key without a kid; mat = "bad" is key material that
\* jwk.construct rejects.
Docs ==
  { <<>>,
    << JWK("k1", "rsa") >>,
    << JWK("", "rsa"), JWK("k1", "bad"), JWK("k2", "rsa") >> }

EmptyKeys == [k \in {} |-> JWK("", "")]

VARIABLES
  keys,          \* self._keys       : kid -> JWK
  cache_age,     \* time.time() - self._cache_age, or NoTime
  lock,          \* self._lock       : the task that holds it, or NoOne
  refresh_task,  \* self._refresh_task : a background task or NoOne
  proc,          \* per task: position and locals (see InitProc)
  call,          \* per caller: outcome and counts of the current call
  snapSrc,       \* observation: the document of the last write
  vt,            \* the validate_token call in progress (see InitValidate)
  te,            \* the extract_tenant_id call in progress (see InitExtract)
  req,           \* the HTTP requests in progress (see IdleRequest)
  ctx,           \* the contextvars Context of each request's task
  environment    \* os.environ["ENVIRONMENT"] of the process

vars == << keys, cache_age, lock, refresh_task, proc, call, snapSrc,
           vt, te, req, ctx, environment >>

\* the state of JWKSCache, of JWTValidator's call, of TenantExtractor's call
cacheVars     == << keys, cache_age, lock, refresh_task, proc, call,
                   snapSrc >>
validatorVars == << vt >>
extractorVars == << te >>
requestVars   == << req, ctx, environment >>

NoSrc == [set |-> FALSE, doc |-> <<>>]

InitProc(p) ==
  [ pc      |-> IF p \in Callers THEN "idle" ELSE "absent",
    site    |-> 0,       \* line of the _refresh_cache call being executed
    kid     |-> "",      \* argument of get_signing_key
    attempt |-> 0,       \* loop variable of _fetch_jwks
    backoff |-> 0,       \* local of _fetch_jwks
    timer   |-> 0,       \* time left of the current sleep
    cancel  |-> FALSE ]  \* Task.cancel() was called and not yet delivered

InitCall ==
  [ out      |-> "none", \* "key", "KeyNotFound", "InvalidJWK"
    nrefresh |-> 0,      \* _refresh_cache calls made by this call
    bgBusy   |-> FALSE ] \* the call returned without suspending while a
                         \* background refresh of a stale, unexpired
                         \* snapshot was in flight

\* ----------------------------------------------------------- JWT tokens
\* Constructor arguments of JWTValidator: leeway_seconds is the default,
\* max_lifetime_minutes a small configuration (the default is 60).
LeewaySeconds      == 60
MaxLifetimeMinutes == 1

Absent == -1             \* the claim is not in the payload
NotInt == -2             \* the claim is a string that is no number

\* A bearer token as validate_token sees it.
\*   hdr      "malformed": jwt.get_unverified_headers raises JWTError
\*   kid      the header's kid: none, a string, or a JSON array (unhashable)
\*   alg      the header's alg
\*   sig      who made the signature: the issuer (RSA private key of the
\*            published key), an attacker (another RSA key), or "hmac": an
\*            HMAC keyed with the published public key
\*   tampered the payload is not the payload the signature was made over
\*   iat, exp, iss, aud   claims of the payload
TokenFields ==
  [ hdr : {"ok"}, kid : {"absent", "k1", "unhashable"},
    alg : {"RS256", "HS256"}, sig : {"issuer", "attacker", "hmac"},
    tampered : BOOLEAN,
    iat : {Absent, NotInt, 870, 940, 1000},
    exp : {Absent, 939, 940, 1000, 1061},
    iss : {"issuer", "other"}, aud : {"client", "other"} ]

MalformedToken ==
  [ hdr |-> "malformed", kid |-> "absent", alg |-> "RS256",
    sig |-> "attacker", tampered |-> FALSE, iat |-> Absent, exp |-> Absent,
    iss |-> "other", aud |-> "other" ]

Tokens == TokenFields \cup {MalformedToken}

\* time.time() when jwt.decode runs
NowVals == {1000, 1001}

NoOut == [ok |-> FALSE, err |-> "none", at |-> "none"]

\* no validate_token call is in progress.  A call in progress has
\*   pc    "resolving" (in get_signing_key) or "done"
\*   tok   the argument of validate_token
\*   now   the time of the call
\*   key   what get_signing_key gave
\*   steps the steps of validate_token entered so far
\*   out   the claims returned, or the exception
InitValidate == [pc |-> "idle"]

\* ---------------------------------------------------------- tenant claims
\* Constructor arguments of TenantExtractor: min_length is the default,
\* max_length a small configuration (the default is 128).
MinLength == 3
MaxLength == 4

\* claim_names of TenantExtractor, in priority order
ClaimNames == << "tenant_id", "organization_id", "org_id" >>

\* What a claim can hold: kind "absent" (claims.get gives None), "str" (a
\* string: val is its characters), "int" (a number: val).
ClaimValue(k, v) == [kind |-> k, val |-> v]

ClaimValues ==
  { ClaimValue("absent", << >>),
    ClaimValue("str", << >>),
    ClaimValue("str", << "o", "r", "g" >>),
    ClaimValue("str", << "a", "_", "1" >>),
    ClaimValue("str", << "a", "b" >>),
    ClaimValue("str", << "a", "@", "b" >>),
    ClaimValue("str", << "o", "r", "g", "-", "1" >>),
    ClaimValue("str", << "o", "r", "g", "\n" >>),
    ClaimValue("int", << 12 >>),
    ClaimValue("int", << 0 >>) }

\* no extract_tenant_id call is in progress.  A call that has run has
\*   pc       "done"
\*   claims   the argument of extract_tenant_id
\*   validate validate_format of the extractor
\*   out      the tenant id returned, or the exception
InitExtract == [pc |-> "idle"]

\* ------------------------------------------------------------ requests
\* a request: Requests are the requests a worker can have in progress at
\* once, each in its own asyncio task
Requests == 1 .. NumRequests

\* no request is in progress in this slot
IdleRequest == [pc |-> "idle"]

\* request_id_ctx, user_id_ctx, tenant_id_ctx (utils/logger.py, lines
\* 19-21) at their default None: 0 is no request id, << >> no user or
\* tenant id
EmptyCtx == [request_id |-> 0, user_id |-> << >>, tenant_id |-> << >>]

Init ==
  /\ keys = EmptyKeys
  /\ cache_age = NoTime
  /\ lock = NoOne
  /\ refresh_task = NoOne
  /\ proc = [p \in Procs |-> InitProc(p)]
  /\ call = [c \in Callers |-> InitCall]
  /\ snapSrc = NoSrc
  /\ vt = InitValidate
  /\ te = InitExtract
  /\ req = [r \in Requests |-> IdleRequest]
  /\ ctx = [r \in Requests |-> EmptyCtx]
  /\ environment = "production"

\* ------------------------------------------------------- pure functions

\* _is_cache_stale: age >= ttl_seconds * 0.8 (no caller in the module)
IsCacheStale(age) ==
  IF age = NoTime THEN TRUE ELSE age * 5 >= TtlSeconds * 4

\* _is_cache_expired
\* (faulty variant: the staleness threshold taken for the expiry threshold)
IsCacheExpiredAtStale(age) == IsCacheStale(age)
\* (faulty variant: `age > self.ttl_seconds`)
IsCacheExpiredStrict(age) ==
  IF age = NoTime THEN TRUE ELSE age > TtlSeconds
IsCacheExpired(age) ==
  IF age = NoTime THEN TRUE ELSE age >= TtlSeconds

Max(a, b) == IF a >= b THEN a ELSE b

\* wait_time of _background_refresh: max(0, ttl_seconds * 0.8 - age);
\* TtlSeconds is a multiple of 5, so the product is an integer.
WaitTime(age) == Max(0, ((TtlSeconds * 4) \div 5) - age)

\* The indexing loop of _refresh_cache: later keys overwrite earlier ones
\* with the same kid, keys without kid are skipped.
RECURSIVE IndexByKid(_)
IndexByKid(ks) ==
  IF ks = <<>> THEN EmptyKeys
  ELSE LET prev == IndexByKid(SubSeq(ks, 1, Len(ks) - 1))
           key  == ks[Len(ks)]
       IN  IF key.kid # ""
             THEN [k \in (DOMAIN prev) \cup {key.kid} |->
                     IF k = key.kid THEN key ELSE prev[k]]
             ELSE prev

\* self._keys = new_keys
\* (faulty variant: self._keys.update(new_keys))
MergeSnapshot(old, new_keys) ==
  [k \in (DOMAIN old) \cup (DOMAIN new_keys) |->
     IF k \in DOMAIN new_keys THEN new_keys[k] ELSE old[k]]
ReplaceSnapshot(old, new_keys) == new_keys

\* except Exception: "Keep existing cache if refresh fails"
\* (faulty variant: the handler clears the cache)
ClearOnError(snap) == [keys |-> EmptyKeys, age |-> NoTime]
\* (faulty variant: the handler drops the keys of an expired snapshot)
DropExpiredOnError(snap) ==
  IF IsCacheExpired(snap.age) THEN [keys |-> EmptyKeys, age |-> snap.age]
  ELSE snap
OnRefreshError(snap) == snap

\* asyncio.Lock.locked() is False
\* (faulty variant: _refresh_cache without the lock)
LockFreeAlways(lk) == TRUE
LockFree(lk) == lk = NoOne

\* key = self._keys.get(kid); if key is None
\* (faulty variant: a miss does not refresh)
KeyMissingNever(ks, k) == FALSE
KeyMissing(ks, k) == k \notin DOMAIN ks

\* the tail of get_key and get_signing_key once the lookup is final
Finish(ks, k) ==
  IF k \notin DOMAIN ks THEN "KeyNotFound"
  ELSE IF ks[k].mat = "rsa" THEN "key" ELSE "InvalidJWK"

\* backoff *= 2 (line 113)
\* (faulty variant: the delay is not doubled)
NextBackoffSame(b) == b
NextBackoff(b) == 2 * b

\* the handler of the retry loop (lines 104-112): an exception e raised by
\* attempt a is followed by a backoff sleep and another attempt iff the
\* except clause matches it and the attempt is not the last
\* (faulty variant: `except Exception`)
RetryAfterAny(e, a) == a < MaxRetries - 1
\* (faulty variant: `attempt < self.max_retries`, one attempt too many)
RetryAfterOneMore(e, a) == e = "HTTPError" /\ a < MaxRetries
RetryAfter(e, a) == e = "HTTPError" /\ a < MaxRetries - 1

\* start_background_refresh: self._refresh_task is None or .done()
\* (faulty variant: no guard)
MayCreateAlways(rt, pr) == TRUE
MayCreateTask(rt, pr) == rt = NoOne \/ pr[rt].pc = "done"

\* ------------------------------------------------------------ the lock

\* tasks queued on the lock; a cancelled waiter no longer counts
Waiters == { q \in Procs : proc[q].pc = "acquire" /\ ~proc[q].cancel }

\* asyncio.Lock.acquire returns without suspending iff the lock is free and
\* nobody is queued
CanEnter(lk, p) == LockFree(lk) /\ Waiters \ {p} = {}

Requesting(r, s) ==
  [r EXCEPT !.pc = "request", !.site = s, !.attempt = 0,
            !.backoff = InitialBackoff, !.timer = 0]

\* Entry of _refresh_cache called from line s by task p whose record is r,
\* the lock being lk: up to the first suspension.
RefreshCache(p, r, s, lk) ==
  IF CanEnter(lk, p)
    THEN [rec |-> Requesting(r, s), lock |-> p]
    ELSE [rec |-> [r EXCEPT !.pc = "acquire", !.site = s, !.timer = 0],
          lock |-> lk]

\* What task p does when _refresh_cache returns (the lock is released by
\* then) and the snapshot is ks: the background task sleeps the TTL, a
\* caller goes on in get_key (a call that has ended keeps the line of its
\* last _refresh_cache call in site until its caller has taken the result).
Return(p, r, ks) ==
  IF p \in BgTasks
    THEN [rec |-> [r EXCEPT !.pc = "sleep_ttl", !.site = 0, !.attempt = 0,
                            !.backoff = 0, !.timer = TtlSeconds],
          lock |-> NoOne, out |-> "none", again |-> FALSE]
  ELSE IF r.site = 204 /\ KeyMissing(ks, r.kid)
    THEN LET e == RefreshCache(p, [r EXCEPT !.attempt = 0, !.backoff = 0],
                               212, NoOne)
         IN  [rec |-> e.rec, lock |-> e.lock, out |-> "none", again |-> TRUE]
  ELSE [rec |-> [r EXCEPT !.pc = "done", !.attempt = 0,
                          !.backoff = 0, !.timer = 0],
        lock |-> NoOne, out |-> Finish(ks, r.kid), again |-> FALSE]

\* the bookkeeping of a caller's call when a refresh of it ends
Account(p, ret) ==
  IF p \in Callers
    THEN call' = [call EXCEPT
           ![p].out      = ret.out,
           ![p].nrefresh = @ + (IF ret.again THEN 1 ELSE 0)]
    ELSE UNCHANGED call

\* the age of the snapshot is between 80% and 100% of the TTL
StaleNotExpired ==
  /\ cache_age # NoTime
  /\ cache_age * 5 >= TtlSeconds * 4
  /\ cache_age < TtlSeconds

BackgroundRefreshingStale ==
  /\ lock \in BgTasks
  /\ proc[lock].pc \in {"request", "backoff"}
  /\ StaleNotExpired

\* ------------------------------------------------- synchronous lookups

\* get_signing_key has returned in some task and the task has not yet
\* reached its next suspension: no other task runs
Returning == \E c \in Callers : proc[c].pc = "done"

\* get_signing_key(k) by caller c, up to its first suspension: get_key's
\* expiry check (line 202), the lookup (207), the miss refresh (212) and,
\* when no refresh is needed, the return value.
CallStart(c, k) ==
  /\ ~Returning
  /\ proc[c].pc = "idle"
  /\ LET r       == [proc[c] EXCEPT !.kid = k]
         expired == IsCacheExpired(cache_age)
         busy    == BackgroundRefreshingStale
     IN  IF expired \/ KeyMissing(keys, k)
           THEN LET e == RefreshCache(c, r, IF expired THEN 204 ELSE 212, lock)
                IN  /\ proc' = [proc EXCEPT ![c] = e.rec]
                    /\ lock' = e.lock
                    /\ call' = [call EXCEPT ![c] =
                                 [out |-> "none", nrefresh |-> 1,
                                  bgBusy |-> FALSE]]
           ELSE /\ proc' = [proc EXCEPT ![c] = [r EXCEPT !.pc = "done"]]
                /\ lock' = lock
                /\ call' = [call EXCEPT ![c] =
                             [out |-> Finish(keys, k), nrefresh |-> 0,
                              bgBusy |-> busy]]
  /\ UNCHANGED << keys, cache_age, refresh_task, snapSrc >>
  /\ UNCHANGED << validatorVars, extractorVars, requestVars >>

\* the caller of get_signing_key takes the result (or the exception): it
\* goes on without suspending, so this is the next step of the event loop
\* (Returning below)
CallReturn(c) ==
  /\ proc[c].pc = "done"
  /\ proc' = [proc EXCEPT ![c] = InitProc(c)]
  /\ call' = [call EXCEPT ![c] = InitCall]
  /\ UNCHANGED << keys, cache_age, lock, refresh_task, snapSrc >>
  /\ UNCHANGED << validatorVars, extractorVars, requestVars >>

\* ------------------------------------------------------- _refresh_cache

\* a task queued on the lock gets it (line 128)
AcquireLock(p) ==
  /\ ~Returning
  /\ proc[p].pc = "acquire"
  /\ ~proc[p].cancel
  /\ LockFree(lock)
  /\ lock' = p
  /\ proc' = [proc EXCEPT ![p] = Requesting(proc[p], proc[p].site)]
  /\ UNCHANGED << keys, cache_age, refresh_task, call,
                  snapSrc >>
  /\ UNCHANGED << validatorVars, extractorVars, requestVars >>

\* the request of the current attempt is answered with the JWKS document
\* d: _fetch_jwks returns, lines 132-143 replace the snapshot, the lock is
\* released and the task goes on to its next suspension
FetchOk(p, d) ==
  /\ ~Returning
  /\ proc[p].pc = "request"
  /\ ~proc[p].cancel
  /\ LET ks  == ReplaceSnapshot(keys, IndexByKid(d))
         ret == Return(p, proc[p], ks)
     IN  /\ keys' = ks
         /\ cache_age' = 0
         /\ lock' = ret.lock
         /\ proc' = [proc EXCEPT ![p] = ret.rec]
         /\ Account(p, ret)
  /\ snapSrc' = [set |-> TRUE, doc |-> d]
  /\ UNCHANGED refresh_task
  /\ UNCHANGED << validatorVars, extractorVars, requestVars >>

\* httpx.HTTPError / RequestError on an attempt that is not the last:
\* sleep the backoff (lines 104-112)
FetchRetry(p) ==
  /\ ~Returning
  /\ proc[p].pc = "request"
  /\ ~proc[p].cancel
  /\ RetryAfter("HTTPError", proc[p].attempt)
  /\ proc' = [proc EXCEPT ![p].pc = "backoff",
                          ![p].timer = proc[p].backoff]
  /\ UNCHANGED << keys, cache_age, lock, refresh_task, call,
                  snapSrc >>
  /\ UNCHANGED << validatorVars, extractorVars, requestVars >>

\* the backoff sleep is over: backoff *= 2, next attempt (lines 113, 85-92)
BackoffWake(p) ==
  /\ ~Returning
  /\ proc[p].pc = "backoff"
  /\ ~proc[p].cancel
  /\ proc[p].timer = 0
  /\ proc' = [proc EXCEPT ![p].pc = "request",
                          ![p].backoff = NextBackoff(proc[p].backoff),
                          ![p].attempt = proc[p].attempt + 1]
  /\ UNCHANGED << keys, cache_age, lock, refresh_task, call,
                  snapSrc >>
  /\ UNCHANGED << validatorVars, extractorVars, requestVars >>

\* _fetch_jwks raised: _refresh_cache's handler (lines 145-147) logs, the
\* lock is released and the task goes on to its next suspension
RefreshFailed(p) ==
  LET snap == OnRefreshError([keys |-> keys, age |-> cache_age])
      ret  == Return(p, proc[p], snap.keys)
  IN  /\ keys' = snap.keys
      /\ cache_age' = snap.age
      /\ lock' = ret.lock
      /\ proc' = [proc EXCEPT ![p] = ret.rec]
      /\ Account(p, ret)
      /\ UNCHANGED << refresh_task, snapSrc >>
      /\ UNCHANGED << validatorVars, extractorVars, requestVars >>

\* httpx.HTTPError / RequestError on the last attempt (lines 114-118)
FetchGiveUp(p) ==
  /\ ~Returning
  /\ proc[p].pc = "request"
  /\ ~proc[p].cancel
  /\ ~RetryAfter("HTTPError", proc[p].attempt)
  /\ RefreshFailed(p)

\* response.json() or jwks_data.get raises (a body that is not a JSON
\* object: ValueError, AttributeError): the except clause of the retry loop
\* does not match, the error leaves _fetch_jwks at once, on any attempt
FetchBadBody(p) ==
  /\ ~Returning
  /\ proc[p].pc = "request"
  /\ ~proc[p].cancel
  /\ IF RetryAfter("ValueError", proc[p].attempt)
       THEN /\ proc' = [proc EXCEPT ![p].pc = "backoff",
                                    ![p].timer = proc[p].backoff]
            /\ UNCHANGED << keys, cache_age, lock, refresh_task, call,
                            snapSrc >>
       ELSE RefreshFailed(p)
  /\ UNCHANGED << validatorVars, extractorVars, requestVars >>

\* --------------------------------------------------- background refresh

\* _background_refresh from the top of `while True` to its first
\* suspension (lines 151-161)
LoopTop(b, r) ==
  IF cache_age # NoTime /\ WaitTime(cache_age) > 0
    THEN [rec |-> [r EXCEPT !.pc = "sleep_stale",
                            !.timer = WaitTime(cache_age)],
          lock |-> lock]
    ELSE RefreshCache(b, r, 161, lock)

\* start_background_refresh
StartBackgroundRefresh ==
  /\ ~Returning
  /\ IF MayCreateTask(refresh_task, proc)
       THEN \E b \in BgTasks :
              /\ proc[b].pc = "absent"
              /\ \A b2 \in BgTasks : proc[b2].pc = "absent" => b <= b2
              /\ proc' = [proc EXCEPT ![b].pc = "created"]
              /\ refresh_task' = b
       ELSE UNCHANGED << proc, refresh_task >>
  /\ UNCHANGED << keys, cache_age, lock, call, snapSrc >>
  /\ UNCHANGED << validatorVars, extractorVars, requestVars >>

\* stop_background_refresh
StopBackgroundRefresh ==
  /\ ~Returning
  /\ IF refresh_task # NoOne /\ proc[refresh_task].pc # "done"
       THEN proc' = [proc EXCEPT ![refresh_task].cancel = TRUE]
       ELSE UNCHANGED proc
  /\ UNCHANGED << keys, cache_age, lock, refresh_task, call,
                  snapSrc >>
  /\ UNCHANGED << validatorVars, extractorVars, requestVars >>

\* the event loop runs the new task for the first time
BgRun(b) ==
  /\ ~Returning
  /\ proc[b].pc = "created"
  /\ ~proc[b].cancel
  /\ LET e == LoopTop(b, proc[b])
     IN  /\ proc' = [proc EXCEPT ![b] = e.rec]
         /\ lock' = e.lock
  /\ UNCHANGED << keys, cache_age, refresh_task, call,
                  snapSrc >>
  /\ UNCHANGED << validatorVars, extractorVars, requestVars >>

\* asyncio.sleep(wait_time) is over: refresh (line 161)
BgWakeStale(b) ==
  /\ ~Returning
  /\ proc[b].pc = "sleep_stale"
  /\ ~proc[b].cancel
  /\ proc[b].timer = 0
  /\ LET e == RefreshCache(b, proc[b], 161, lock)
     IN  /\ proc' = [proc EXCEPT ![b] = e.rec]
         /\ lock' = e.lock
  /\ UNCHANGED << keys, cache_age, refresh_task, call,
                  snapSrc >>
  /\ UNCHANGED << validatorVars, extractorVars, requestVars >>

\* asyncio.sleep(ttl_seconds) is over: next iteration
BgWakeTtl(b) ==
  /\ ~Returning
  /\ proc[b].pc = "sleep_ttl"
  /\ ~proc[b].cancel
  /\ proc[b].timer = 0
  /\ LET e == LoopTop(b, proc[b])
     IN  /\ proc' = [proc EXCEPT ![b] = e.rec]
         /\ lock' = e.lock
  /\ UNCHANGED << keys, cache_age, refresh_task, call,
                  snapSrc >>
  /\ UNCHANGED << validatorVars, extractorVars, requestVars >>

\* what is left of background task b, whose record is r, when
\* CancelledError went through it: `except asyncio.CancelledError: break`
\* (lines 166-168) ends the loop and the task
\* (faulty variant: the `except Exception` of _refresh_cache takes the
\* cancellation of a refresh for a failed refresh and the loop goes on)
CancelledSwallowed(b, r) ==
  IF r.pc \in {"acquire", "request", "backoff"}
    THEN [r EXCEPT !.pc = "sleep_ttl", !.site = 0, !.attempt = 0,
                   !.backoff = 0, !.timer = TtlSeconds, !.cancel = FALSE]
    ELSE [InitProc(b) EXCEPT !.pc = "done"]
Cancelled(b, r) == [InitProc(b) EXCEPT !.pc = "done"]

\* the lock when CancelledError has gone through task b: the exit of
\* `async with self._lock` (line 128) releases a lock that b holds
\* (faulty variant: acquire() and release() without try/finally)
KeepOnCancel(lk, b) == lk
ReleaseOnCancel(lk, b) == IF lk = b THEN NoOne ELSE lk

\* CancelledError is raised in the task at its suspension point: it is no
\* Exception, so it passes _refresh_cache's handler, `async with` releases
\* the lock if the task holds it, and line 166 ends the loop.  A task
\* cancelled before its first run ends without running.
BgCancelled(b) ==
  /\ ~Returning
  /\ proc[b].cancel
  /\ proc[b].pc \notin {"absent", "done"}
  /\ proc' = [proc EXCEPT ![b] = Cancelled(b, proc[b])]
  /\ lock' = ReleaseOnCancel(lock, b)
  /\ UNCHANGED << keys, cache_age, refresh_task, call,
                  snapSrc >>
  /\ UNCHANGED << validatorVars, extractorVars, requestVars >>

\* ------------------------------------------------------------ the rest

\* clear_cache
ClearCache ==
  /\ ~Returning
  /\ keys' = EmptyKeys
  /\ cache_age' = NoTime
  /\ snapSrc' = NoSrc
  /\ UNCHANGED << lock, refresh_task, proc, call >>
  /\ UNCHANGED << validatorVars, extractorVars, requestVars >>

Sleeping(p) == proc[p].pc \in {"backoff", "sleep_stale", "sleep_ttl"}

\* a task the event loop can run now
Ready(p) ==
  \/ proc[p].cancel /\ proc[p].pc \notin {"absent", "done"}
  \/ proc[p].pc = "created"
  \/ Sleeping(p) /\ proc[p].timer = 0
  \/ proc[p].pc = "acquire" /\ lock = NoOne

\* one second passes
Tick ==
  /\ ~Returning
  /\ \A p \in Procs : ~Ready(p)
  /\ cache_age' = IF cache_age = NoTime \/ cache_age >= TtlSeconds
                    THEN cache_age ELSE cache_age + 1
  /\ proc' = [p \in Procs |->
               IF Sleeping(p) THEN [proc[p] EXCEPT !.timer = @ - 1]
                              ELSE proc[p]]
  /\ UNCHANGED << keys, lock, refresh_task, call, snapSrc >>
  /\ UNCHANGED << validatorVars, extractorVars, requestVars >>

Next ==
  \/ \E c \in Callers : CallReturn(c)
  \/ \E c \in Callers, k \in Kids : CallStart(c, k)
  \/ \E p \in Procs : AcquireLock(p)
  \/ \E p \in Procs, d \in Docs : FetchOk(p, d)
  \/ \E p \in Procs : FetchRetry(p)
  \/ \E p \in Procs : BackoffWake(p)
  \/ \E p \in Procs : FetchGiveUp(p)
  \/ \E p \in Procs : FetchBadBody(p)
  \/ StartBackgroundRefresh
  \/ StopBackgroundRefresh
  \/ \E b \in BgTasks : BgRun(b)
  \/ \E b \in BgTasks : BgWakeStale(b)
  \/ \E b \in BgTasks : BgWakeTtl(b)
  \/ \E b \in BgTasks : BgCancelled(b)
  \/ ClearCache
  \/ Tick

Spec == Init /\ [][Next]_vars

\* a step of task p that the task takes by itself: it is run by the event
\* loop, or its request is answered
TaskStep(p) ==
  \/ AcquireLock(p)
  \/ \E d \in Docs : FetchOk(p, d)
  \/ FetchRetry(p)
  \/ BackoffWake(p)
  \/ FetchGiveUp(p)
  \/ FetchBadBody(p)
  \/ p \in Callers /\ CallReturn(p)
  \/ p \in BgTasks
       /\ (BgRun(p) \/ BgWakeStale(p) \/ BgWakeTtl(p) \/ BgCancelled(p))

\* The cache with the event loop's and the environment's progress: time
\* passes; a request to the upstream ends (AsyncClient(timeout=10.0), line
\* 84, ends it with an httpx.HTTPError if nothing else does); a sleep that
\* is over and a cancellation are delivered; asyncio.Lock hands the lock
\* to its waiters in the order they came, so no waiter is passed over for
\* ever.
Fairness ==
  /\ SF_vars(Tick)
  /\ \A p \in Procs : SF_vars(TaskStep(p))

SpecLive == Spec /\ Fairness

\* The same cache with an upstream that answers every request with a JWKS
\* document.
NextHealthy ==
  \/ \E c \in Callers : CallReturn(c)
  \/ \E c \in Callers, k \in Kids : CallStart(c, k)
  \/ \E p \in Procs : AcquireLock(p)
  \/ \E p \in Procs, d \in Docs : FetchOk(p, d)
  \/ StartBackgroundRefresh
  \/ StopBackgroundRefresh
  \/ \E b \in BgTasks : BgRun(b)
  \/ \E b \in BgTasks : BgWakeStale(b)
  \/ \E b \in BgTasks : BgWakeTtl(b)
  \/ \E b \in BgTasks : BgCancelled(b)
  \/ ClearCache
  \/ Tick

SpecHealthy == Init /\ [][NextHealthy]_vars

\* The same cache with an upstream that answers every request with an HTTP
\* error (or not at all): no fetch ever succeeds, the cache stays empty.
NextUnreachable ==
  \/ \E c \in Callers : CallReturn(c)
  \/ \E c \in Callers, k \in Kids : CallStart(c, k)
  \/ \E p \in Procs : AcquireLock(p)
  \/ \E p \in Procs : FetchRetry(p)
  \/ \E p \in Procs : BackoffWake(p)
  \/ \E p \in Procs : FetchGiveUp(p)
  \/ StartBackgroundRefresh
  \/ StopBackgroundRefresh
  \/ \E b \in BgTasks : BgRun(b)
  \/ \E b \in BgTasks : BgWakeTtl(b)
  \/ \E b \in BgTasks : BgCancelled(b)
  \/ Tick

SpecUnreachable == Init /\ [][NextUnreachable]_vars

\* ================================================= jwt_validator.py
\* validate_token awaits once, in get_signing_key: ValidateStart is the
\* call up to that await, KeyResolved the rest.  The key cache is seen
\* through what get_signing_key can give for the kid.

\* the exception classes the module handles: class -> base class
Parent(e) ==
  CASE e \in {"ExpiredSignatureError", "JWTClaimsError"} -> "JWTError"
    [] e \in {"TokenExpiredError", "TokenSignatureError",
              "TokenInvalidClaimError"} -> "JWTValidationError"
    [] OTHER -> "Exception"

\* isinstance(e, c)
RECURSIVE IsA(_, _)
IsA(e, c) ==
  IF e = c THEN TRUE
  ELSE IF e = "Exception" THEN FALSE
  ELSE IsA(Parent(e), c)

\* `if not kid` (line 105)
\* (faulty variant: no check of the kid)
KidMissingNever(kid) == FALSE
KidMissing(kid) == kid = "absent"

\* lines 102-107: "none", or the exception raised
HeaderStep(tok) ==
  IF tok.hdr = "malformed" THEN "JWTError"
  ELSE IF KidMissing(tok.kid) THEN "TokenInvalidClaimError"
  ELSE "none"

\* What get_signing_key(kid) gives: the key of the issuer, another key of
\* the key set, ValueError (not found after the refresh, or a JWK that
\* jwk.construct rejects), TypeError (self._keys.get of an unhashable kid).
KeyOutcomes(kid) ==
  IF kid = "unhashable" THEN {"TypeError"}
  ELSE IF kid = "k1" THEN {"issuerKey", "otherKey", "ValueError"}
  ELSE {"ValueError"}

IsKey(r) == r \in {"issuerKey", "otherKey"}

\* the handlers of get_signing_key's try (lines 112-117)
\* (faulty variant: without the `except Exception` clause)
KeyHandlersValueError(e) ==
  IF IsA(e, "ValueError") THEN "TokenSignatureError" ELSE e
KeyHandlers(e) ==
  IF IsA(e, "ValueError") THEN "TokenSignatureError"
  ELSE IF IsA(e, "Exception") THEN "TokenSignatureError"
  ELSE e

\* algorithms=["RS256"] (line 124)
\* (faulty variant: the symmetric algorithm is allowed too)
AlgorithmsWithHS256 == {"RS256", "HS256"}
Algorithms == {"RS256"}

\* the library's signature check under the header's algorithm with the
\* resolved key: an RSA signature verifies under the public key of its
\* private key, an HMAC under the same secret, both over the payload signed
SigMatches(tok, key) ==
  /\ ~tok.tampered
  /\ key = "issuerKey"
  /\ \/ tok.alg = "RS256" /\ tok.sig = "issuer"
     \/ tok.alg = "HS256" /\ tok.sig = "hmac"

\* jwt.decode, verify_signature: the algorithm must be allowed and the
\* signature must match
VerifySignature(tok, key) ==
  IF tok.alg \notin Algorithms THEN "JWTError"
  ELSE IF ~SigMatches(tok, key) THEN "JWTError"
  ELSE "none"

\* jwt.decode, the claims in the library's order: iat is an integer, exp
\* is not before now - leeway, aud is the client id, iss is the issuer
VerifyClaims(tok, now) ==
  IF tok.iat = NotInt THEN "JWTClaimsError"
  ELSE IF tok.exp # Absent /\ tok.exp < now - LeewaySeconds
    THEN "ExpiredSignatureError"
  ELSE IF tok.aud # "client" THEN "JWTClaimsError"
  ELSE IF tok.iss # "issuer" THEN "JWTClaimsError"
  ELSE "none"

\* jwt.decode (lines 121-135): the signature first, then the claims
\* (faulty variant: the claims first)
DecodeClaimsFirst(tok, key, now) ==
  IF VerifyClaims(tok, now) # "none" THEN VerifyClaims(tok, now)
  ELSE VerifySignature(tok, key)
Decode(tok, key, now) ==
  IF VerifySignature(tok, key) # "none" THEN VerifySignature(tok, key)
  ELSE VerifyClaims(tok, now)

\* the handlers of jwt.decode's try, in their order (lines 136-144)
\* (faulty variant: `except JWTError` first)
DecodeHandlersBaseFirst(e) ==
  IF IsA(e, "JWTError") THEN "TokenSignatureError"
  ELSE IF IsA(e, "ExpiredSignatureError") THEN "TokenExpiredError"
  ELSE IF IsA(e, "JWTClaimsError") THEN "TokenInvalidClaimError"
  ELSE e
DecodeHandlers(e) ==
  IF IsA(e, "ExpiredSignatureError") THEN "TokenExpiredError"
  ELSE IF IsA(e, "JWTClaimsError") THEN "TokenInvalidClaimError"
  ELSE IF IsA(e, "JWTError") THEN "TokenSignatureError"
  ELSE e

SecondsPerMinute == 60

\* lifetime_minutes > self.max_lifetime_minutes, lifetime_minutes being the
\* float (exp - iat) / 60 (lines 179-182)
\* (faulty variant: whole minutes, (exp - iat) // 60)
ExceedsWholeMinutes(iat, exp) ==
  (exp - iat) \div SecondsPerMinute > MaxLifetimeMinutes
ExceedsLifetime(iat, exp) ==
  exp - iat > MaxLifetimeMinutes * SecondsPerMinute

\* _validate_token_lifetime: "none", or the exception raised
\* (faulty variant: the cap is applied only when both claims are there)
ValidateTokenLifetimeIfPresent(tok) ==
  IF tok.iat = Absent \/ tok.exp = Absent THEN "none"
  ELSE IF ExceedsLifetime(tok.iat, tok.exp) THEN "TokenInvalidClaimError"
  ELSE "none"
ValidateTokenLifetime(tok) ==
  IF tok.iat = Absent \/ tok.exp = Absent THEN "TokenInvalidClaimError"
  ELSE IF ExceedsLifetime(tok.iat, tok.exp) THEN "TokenInvalidClaimError"
  ELSE "none"

\* the handlers of the outer try (lines 154-159)
\* (faulty variant: no outer try)
BoundaryOpen(e) == e
Boundary(e) ==
  IF IsA(e, "JWTValidationError") THEN e ELSE "JWTValidationError"

Fail(e, step) == [ok |-> FALSE, err |-> Boundary(e), at |-> step]
Accepted      == [ok |-> TRUE, err |-> "none", at |-> "return"]

\* validate_token(tok) at time now, up to `await get_signing_key(kid)`
ValidateStart(tok, now) ==
  /\ vt.pc = "idle"
  /\ IF HeaderStep(tok) # "none"
       THEN vt' = [ pc |-> "done", tok |-> tok, now |-> now,
                    key |-> "none", steps |-> << "header" >>,
                    out |-> Fail(HeaderStep(tok), "header") ]
       ELSE vt' = [ pc |-> "resolving", tok |-> tok, now |-> now,
                    key |-> "none", steps |-> << "header", "key" >>,
                    out |-> NoOut ]
  /\ UNCHANGED << cacheVars, extractorVars, requestVars >>

\* get_signing_key returns or raises r: the rest of validate_token
KeyResolved(r) ==
  /\ vt.pc = "resolving"
  /\ r \in KeyOutcomes(vt.tok.kid)
  /\ LET tok == vt.tok
         d   == Decode(tok, r, vt.now)
         l   == ValidateTokenLifetime(tok)
     IN  vt' =
           IF ~IsKey(r)
             THEN [vt EXCEPT !.pc = "done", !.key = r,
                     !.out = Fail(KeyHandlers(r), "key")]
           ELSE IF d # "none"
             THEN [vt EXCEPT !.pc = "done", !.key = r,
                     !.steps = Append(@, "decode"),
                     !.out = Fail(DecodeHandlers(d), "decode")]
           ELSE IF l # "none"
             THEN [vt EXCEPT !.pc = "done", !.key = r,
                     !.steps = @ \o << "decode", "lifetime" >>,
                     !.out = Fail(l, "lifetime")]
           ELSE [vt EXCEPT !.pc = "done", !.key = r,
                   !.steps = @ \o << "decode", "lifetime" >>,
                   !.out = Accepted]
  /\ UNCHANGED << cacheVars, extractorVars, requestVars >>

\* the caller takes the claims or the exception
ValidateReturn ==
  /\ vt.pc = "done"
  /\ vt' = InitValidate
  /\ UNCHANGED << cacheVars, extractorVars, requestVars >>

NextValidator ==
  \/ \E tok \in Tokens, now \in NowVals : ValidateStart(tok, now)
  \/ \E r \in {"issuerKey", "otherKey", "ValueError", "TypeError"} :
       KeyResolved(r)
  \/ ValidateReturn

SpecValidator == Init /\ [][NextValidator]_vars

\* ================================================ tenant_extractor.py

ClaimNameSet == { ClaimNames[i] : i \in 1 .. Len(ClaimNames) }

\* bool(tenant_id) of `if tenant_id` (line 94): None, "" and 0 are false
\* (faulty variant: `if tenant_id is not None`)
TruthyPresent(v) == v.kind # "absent"
Truthy(v) ==
  CASE v.kind = "absent" -> FALSE
    [] v.kind = "str"    -> v.val # << >>
    [] OTHER             -> v.val # << 0 >>

\* the decimal digits of a natural number
DigitChar(d) == << "0", "1", "2", "3", "4", "5", "6", "7", "8", "9" >>[d + 1]

RECURSIVE Digits(_)
Digits(n) ==
  IF n < 10 THEN << DigitChar(n) >>
  ELSE Append(Digits(n \div 10), DigitChar(n % 10))

\* str(tenant_id) (line 101)
ToStr(v) == IF v.kind = "str" THEN v.val ELSE Digits(v.val[1])

\* the characters of the class [a-zA-Z0-9_-] that the values use
AllowedChars ==
  { "a", "b", "g", "o", "r", "0", "1", "2", "_", "-" }

\* TENANT_ID_PATTERN.match(s) with ^[a-zA-Z0-9_-]+$ : one or more allowed
\* characters up to the end of the string, where `$` also matches before a
\* newline that ends the string
PatternMatch(s) ==
  LET body == IF Len(s) >= 1 /\ s[Len(s)] = "\n"
                THEN SubSeq(s, 1, Len(s) - 1) ELSE s
      strict == Len(s) >= 1 /\ \A i \in 1 .. Len(s) : s[i] \in AllowedChars
  IN  \/ strict
      \/ Len(body) >= 1 /\ \A i \in 1 .. Len(body) : body[i] \in AllowedChars

\* _validate_tenant_id: "none", or the exception raised
ValidateTenantId(v) ==
  IF v.kind # "str" THEN "InvalidTenantFormatError"
  ELSE IF Len(v.val) < MinLength THEN "InvalidTenantFormatError"
  ELSE IF Len(v.val) > MaxLength THEN "InvalidTenantFormatError"
  ELSE IF ~PatternMatch(v.val) THEN "InvalidTenantFormatError"
  ELSE "none"

\* `if tenant_id` for the i-th claim name: the loop ends with this claim
\* (faulty variant: a later claim that holds a value replaces it)
TakesClaimLast(claims, i) ==
  /\ Truthy(claims[ClaimNames[i]])
  /\ \A j \in (i + 1) .. Len(ClaimNames) : ~Truthy(claims[ClaimNames[j]])
\* (faulty variant: a value that fails _validate_tenant_id is passed over)
TakesClaimValid(claims, i) ==
  /\ Truthy(claims[ClaimNames[i]])
  /\ ValidateTenantId(claims[ClaimNames[i]]) = "none"
TakesClaim(claims, i) == Truthy(claims[ClaimNames[i]])

\* the loop of extract_tenant_id from the i-th claim name on
RECURSIVE ExtractFrom(_, _, _)
ExtractFrom(claims, validate, i) ==
  IF i > Len(ClaimNames)
    THEN [ok |-> FALSE, val |-> << >>, err |-> "MissingTenantClaimError"]
  ELSE IF TakesClaim(claims, i)
    THEN LET v == claims[ClaimNames[i]]
         IN  IF validate /\ ValidateTenantId(v) # "none"
               THEN [ok |-> FALSE, val |-> << >>,
                     err |-> ValidateTenantId(v)]
               ELSE [ok |-> TRUE, val |-> ToStr(v), err |-> "none"]
  ELSE ExtractFrom(claims, validate, i + 1)

\* extract_tenant_id(claims) of an extractor with validate_format
ExtractTenantId(claims, validate) == ExtractFrom(claims, validate, 1)

ExtractStart(claims, validate) ==
  /\ te.pc = "idle"
  /\ te' = [ pc |-> "done", claims |-> claims, validate |-> validate,
             out |-> ExtractTenantId(claims, validate) ]
  /\ UNCHANGED << cacheVars, validatorVars, requestVars >>

\* the caller takes the tenant id or the exception
ExtractReturn ==
  /\ te.pc = "done"
  /\ te' = InitExtract
  /\ UNCHANGED << cacheVars, validatorVars, requestVars >>

NextExtractor ==
  \/ \E claims \in [ClaimNameSet -> ClaimValues], validate \in BOOLEAN :
       ExtractStart(claims, validate)
  \/ ExtractReturn

SpecExtractor == Init /\ [][NextExtractor]_vars

\* ============================== dependencies.py, middleware/, engine.py
\* A request passes, from the outside in, TenantContextMiddleware,
\* CORSMiddleware, LoggingMiddleware, ExceptionHandlerMiddleware (Starlette
\* puts the middleware added last outermost, main.py lines 133-153), the
\* exception handlers of FastAPI, the dependencies of the route and the
\* endpoint.  The server runs every request in a task of its own, and a
\* task starts with a copy of the context of the task that made it; no
\* layer reads a context variable that a layer further in has set, so one
\* context per request records what every layer of the request reads.

\* the Context the tasks of request r run in
\* (faulty variant: module globals in place of the ContextVars)
CtxShared(r) == 1
CtxOf(r) == r

\* What request.state holds as user_context when the request reaches the
\* application, if an ASGI layer in front of the application put one there.
\* The application itself never assigns request.state.user_context.
PresetUser(r) ==
  [ user_id   |-> << "u", DigitChar(r) >>,
    tenant_id |-> << "t", DigitChar(r) >> ]

\* the `sub` claim of an accepted token and the claim of the configured
\* tenant claim name (TenantExtractor(claim_names=[...]), line 133)
SubValues == {"absent", "user"}

RequestTenantValues ==
  { ClaimValue("absent", << >>),
    ClaimValue("str", << "o", "r", "g" >>),
    ClaimValue("str", << "a", "_", "1" >>),
    ClaimValue("str", << "a", "b" >>) }

ClaimsOf(tclaim) ==
  [n \in ClaimNameSet |->
     IF n = ClaimNames[1] THEN tclaim ELSE ClaimValue("absent", << >>)]

\* validate_token(tok) at time now when get_signing_key gives r: the claims
\* or the exception (the steps of ValidateStart and KeyResolved in one)
ValidateToken(tok, r, now) ==
  IF HeaderStep(tok) # "none" THEN Fail(HeaderStep(tok), "header")
  ELSE IF ~IsKey(r) THEN Fail(KeyHandlers(r), "key")
  ELSE IF Decode(tok, r, now) # "none"
    THEN Fail(DecodeHandlers(Decode(tok, r, now)), "decode")
  ELSE IF ValidateTokenLifetime(tok) # "none"
    THEN Fail(ValidateTokenLifetime(tok), "lifetime")
  ELSE Accepted

\* every way validate_token can end for get_current_user: what
\* get_signing_key gave ("none": it was not called) and the outcome
ValidateCases ==
  { [ key |-> IF HeaderStep(x[1]) # "none" THEN "none" ELSE x[3],
      out |-> ValidateToken(x[1], x[3], x[2]) ] :
    x \in { y \in Tokens \X NowVals
                   \X {"issuerKey", "otherKey", "ValueError", "TypeError"} :
            y[3] \in KeyOutcomes(y[1].kid) } }

\* an exception in flight: its class and, for an HTTPException, the
\* status code and the "error" dictionary of its detail.  The "detail"
\* entry of that dictionary is "static" (a text written in the handler) or
\* "internal" (str(e) of the exception handled).
Raise(cls) == [cls |-> cls, status |-> 0, code |-> "", detail |-> "none"]
HTTPException(status, code, detail) ==
  [cls |-> "HTTPException", status |-> status, code |-> code,
   detail |-> detail]
NoExc == Raise("none")

\* extract_user_id: `if not user_id` (jwt_validator.py, lines 239-245)
\* (faulty variant: no check of the sub claim)
ExtractUserIdAny(sub) == "none"
ExtractUserId(sub) ==
  IF sub = "absent" THEN "TokenInvalidClaimError" ELSE "none"

\* the handlers of extract_tenant_id's try (dependencies.py, lines 212-235)
TenantHandlers(e) ==
  IF IsA(e, "MissingTenantClaimError")
    THEN HTTPException(403, "AUTH_005", "internal")
  ELSE IF IsA(e, "InvalidTenantFormatError")
    THEN HTTPException(400, "AUTH_007", "internal")
  ELSE Raise(e)

\* the handlers of get_current_user's outer try, in their order (lines
\* 245-312); the try encloses the handlers of extract_tenant_id's try
AuthHandlers(x) ==
  IF IsA(x.cls, "TokenExpiredError")
    THEN HTTPException(401, "AUTH_003", "static")
  ELSE IF IsA(x.cls, "TokenSignatureError")
    THEN HTTPException(401, "AUTH_004", "static")
  ELSE IF IsA(x.cls, "TokenInvalidClaimError")
    THEN HTTPException(401, "AUTH_001", "internal")
  ELSE IF IsA(x.cls, "JWTValidationError")
    THEN HTTPException(401, "AUTH_001", "internal")
  ELSE IF IsA(x.cls, "Exception")
    THEN HTTPException(500, "SYS_003", "static")
  ELSE x

NoUser == [user_id |-> << >>, tenant_id |-> << >>]

\* get_current_user when validate_token ends as case and the accepted
\* token holds sub and tclaim: the UserContext returned or the exception
\* raised, and the steps entered
GetCurrentUser(case, sub, tclaim) ==
  LET ext == ExtractTenantId(ClaimsOf(tclaim), TRUE)
  IN  IF ~case.out.ok
        THEN [ uc |-> FALSE, user |-> NoUser, steps |-> << "validate" >>,
               exc |-> AuthHandlers(Raise(case.out.err)) ]
      ELSE IF ExtractUserId(sub) # "none"
        THEN [ uc |-> FALSE, user |-> NoUser,
               steps |-> << "validate", "user_id" >>,
               exc |-> AuthHandlers(Raise(ExtractUserId(sub))) ]
      ELSE IF ~ext.ok
        THEN [ uc |-> FALSE, user |-> NoUser,
               steps |-> << "validate", "user_id", "tenant" >>,
               exc |-> AuthHandlers(TenantHandlers(ext.err)) ]
      ELSE [ uc |-> TRUE,
             user |-> [user_id |-> << "u" >>, tenant_id |-> ext.val],
             steps |-> << "validate", "user_id", "tenant", "context" >>,
             exc |-> NoExc ]

\* FastAPI's handler of HTTPException: the status code and the detail of
\* the exception as the body, whatever the environment.  request_id is the
\* "request_id" entry of the body's "error" dictionary, 0 when it has
\* none: the dictionaries written in get_current_user have the entries
\* "code", "message" and "detail".
HttpExceptionResponse(x) ==
  [status |-> x.status, code |-> x.code, detail |-> x.detail,
   request_id |-> 0]

\* _should_include_detail (exception.py, lines 166-183)
ShouldIncludeDetail == environment = "development"

\* _handle_unexpected_exception with format_error_response (exception.py,
\* lines 112-164; errors.py, lines 239-252); rid is
\* request.state.request_id, which LoggingMiddleware has set (line 72)
UnexpectedResponse(rid) ==
  [status |-> 500, code |-> "SYS_003",
   detail |-> IF ShouldIncludeDetail THEN "internal" ELSE "none",
   request_id |-> rid]

OkResponse ==
  [status |-> 200, code |-> "", detail |-> "none", request_id |-> 0]
NoResponse ==
  [status |-> 0, code |-> "", detail |-> "none", request_id |-> 0]

\* the session get_session yields (engine.py, lines 211-213): a new
\* session of the factory; current_tenant is app.current_tenant_id of its
\* transaction, << >> when it is not set
GetSession == [queries |-> 0, current_tenant |-> << >>]
NoSession  == [queries |-> -1, current_tenant |-> << >>]

NoAuth ==
  [ key |-> "none", out |-> NoOut, sub |-> "absent",
    tclaim |-> ClaimValue("absent", << >>),
    res |-> [uc |-> FALSE, user |-> NoUser, steps |-> << >>,
             exc |-> NoExc] ]

\* TenantContextMiddleware.dispatch up to call_next (lines 56-71): the
\* context after it, and the Token of tenant_id_ctx.set
TenantContextEnter(c, r, preset) ==
  IF preset THEN [c EXCEPT !.tenant_id = PresetUser(r).tenant_id] ELSE c

\* the finally clause of TenantContextMiddleware.dispatch (lines 73-75)
TenantContextExit(c, preset, tok) ==
  IF preset THEN [c EXCEPT !.tenant_id = tok] ELSE c

\* LoggingMiddleware.dispatch up to call_next (lines 66-95); the request
\* id, a uuid4, is the number of the request
LoggingEnter(c, r) == [c EXCEPT !.request_id = r]

\* the finally clause of LoggingMiddleware.dispatch (lines 153-155)
\* (faulty variant: no reset of request_id_ctx)
LoggingExitKeep(c, tok) == c
LoggingExit(c, tok) == [c EXCEPT !.request_id = tok]

\* LoggingMiddleware.dispatch after call_next returned (lines 97-129):
\* user_id_ctx is set for the completion log line and reset after it
LoggingCompletion(c, r, preset) ==
  LET during == IF preset THEN [c EXCEPT !.user_id = PresetUser(r).user_id]
                ELSE c
  IN  [log |-> during, after |-> [during EXCEPT !.user_id = c.user_id]]

\* the app.add_middleware calls of create_app, in their order (main.py,
\* lines 133-153)
AddMiddlewareCalls ==
  << "ExceptionHandlerMiddleware", "LoggingMiddleware", "CORSMiddleware",
     "TenantContextMiddleware" >>

\* Starlette's add_middleware puts the class at the head of
\* user_middleware, and the stack is built with the head of the list
\* outermost: the stack, outermost first, after the calls
RECURSIVE BuildMiddlewareStack(_)
BuildMiddlewareStack(calls) ==
  IF calls = << >> THEN << >>
  ELSE << calls[Len(calls)] >>
         \o BuildMiddlewareStack(SubSeq(calls, 1, Len(calls) - 1))

MiddlewareStack == BuildMiddlewareStack(AddMiddlewareCalls)

\* the place of middleware m in the stack, 1 the outermost
Layer(m) ==
  CHOOSE i \in 1 .. Len(MiddlewareStack) : MiddlewareStack[i] = m

\* dispatch of middleware m up to call_next, on the context c
MiddlewareEnter(m, c, r, preset) ==
  CASE m = "TenantContextMiddleware" -> TenantContextEnter(c, r, preset)
    [] m = "LoggingMiddleware"       -> LoggingEnter(c, r)
    [] OTHER                         -> c

\* the context of request r when the n outermost middleware have called
\* call_next
RECURSIVE ContextAt(_, _, _)
ContextAt(n, r, preset) ==
  IF n = 0 THEN EmptyCtx
  ELSE MiddlewareEnter(MiddlewareStack[n], ContextAt(n - 1, r, preset),
                       r, preset)

\* the request enters the application: the middleware of the stack from
\* the outermost in, then the route's dependencies up to the await of
\* get_signing_key in validate_token.  at_tenant is the context in which
\* TenantContextMiddleware.dispatch starts.
Arrive(r, preset) ==
  /\ req[r].pc = "idle"
  /\ LET before(m) == ContextAt(Layer(m) - 1, r, preset)
     IN  /\ ctx' = [ctx EXCEPT ![CtxOf(r)] =
                      ContextAt(Len(MiddlewareStack), r, preset)]
         /\ req' = [req EXCEPT ![r] =
              [ pc |-> "auth", preset |-> preset,
                tenant_token |->
                  before("TenantContextMiddleware").tenant_id,
                request_id_token |->
                  before("LoggingMiddleware").request_id,
                at_tenant |-> before("TenantContextMiddleware"),
                auth |-> NoAuth, session |-> NoSession,
                seen |-> EmptyCtx, resp |-> NoResponse ]]
  /\ UNCHANGED << environment, cacheVars, validatorVars, extractorVars >>

\* the rest of get_current_user; an HTTPException it raises becomes the
\* response in FastAPI's exception handler
AuthDone(r, case, sub, tclaim) ==
  /\ req[r].pc = "auth"
  /\ ~case.out.ok => sub = "absent"
  /\ (~case.out.ok \/ ExtractUserId(sub) # "none")
       => tclaim = ClaimValue("absent", << >>)
  /\ LET res == GetCurrentUser(case, sub, tclaim)
     IN  req' = [req EXCEPT
           ![r].auth = [key |-> case.key, out |-> case.out, sub |-> sub,
                        tclaim |-> tclaim, res |-> res],
           ![r].pc   = IF res.uc THEN "endpoint" ELSE "responding",
           ![r].resp = IF res.uc THEN NoResponse
                       ELSE HttpExceptionResponse(res.exc)]
  /\ UNCHANGED << ctx, environment, cacheVars, validatorVars,
                  extractorVars >>

\* the endpoint runs with the UserContext: it writes a log line (the
\* formatter reads the context), and, when it is an endpoint with
\* Depends(get_session) as in get_session's docstring (lines 197-201; the
\* application registers none so far), runs a query on the session.  A
\* query that raises is rolled back in get_session and becomes the response
\* of ExceptionHandlerMiddleware.
Endpoint(r, db, crash) ==
  /\ req[r].pc = "endpoint"
  /\ crash => db
  /\ req' = [req EXCEPT
       ![r].pc      = "responding",
       ![r].seen    = ctx[CtxOf(r)],
       ![r].session = IF db THEN [GetSession EXCEPT !.queries = 1]
                      ELSE NoSession,
       ![r].resp    = IF crash THEN UnexpectedResponse(ctx[CtxOf(r)].request_id)
                      ELSE OkResponse]
  /\ UNCHANGED << ctx, environment, cacheVars, validatorVars,
                  extractorVars >>

\* what is left of a request that ended
Ended(r, how) == [pc |-> "done", preset |-> req[r].preset, how |-> how]

\* the response passes LoggingMiddleware (completion log line, finally)
\* and TenantContextMiddleware (finally) and leaves the application
Leave(r) ==
  /\ req[r].pc = "responding"
  /\ LET c  == ctx[CtxOf(r)]
         lc == LoggingCompletion(c, r, req[r].preset)
         c1 == LoggingExit(lc.after, req[r].request_id_token)
         c2 == TenantContextExit(c1, req[r].preset, req[r].tenant_token)
     IN  ctx' = [ctx EXCEPT ![CtxOf(r)] = c2]
  /\ req' = [req EXCEPT ![r] = Ended(r, "response")]
  /\ UNCHANGED << environment, cacheVars, validatorVars, extractorVars >>

\* the task of the request is cancelled where it waits: CancelledError is
\* no Exception, no handler of the application catches it, the finally
\* clauses of the two middleware run
Cancel(r) ==
  /\ req[r].pc \in {"auth", "endpoint", "responding"}
  /\ LET c  == ctx[CtxOf(r)]
         c1 == LoggingExit(c, req[r].request_id_token)
         c2 == TenantContextExit(c1, req[r].preset, req[r].tenant_token)
     IN  ctx' = [ctx EXCEPT ![CtxOf(r)] = c2]
  /\ req' = [req EXCEPT ![r] = Ended(r, "cancelled")]
  /\ UNCHANGED << environment, cacheVars, validatorVars, extractorVars >>

\* the task of the request is over
TaskDone(r) ==
  /\ req[r].pc = "done"
  /\ req' = [req EXCEPT ![r] = IdleRequest]
  /\ UNCHANGED << ctx, environment, cacheVars, validatorVars,
                  extractorVars >>

\* the process is started with another ENVIRONMENT
Deploy(e) ==
  /\ \A r \in Requests : req[r].pc = "idle"
  /\ e # environment
  /\ environment' = e
  /\ UNCHANGED << req, ctx, cacheVars, validatorVars, extractorVars >>

\* the requests through the application as main.py builds it
NextApp ==
  \/ \E r \in Requests : Arrive(r, FALSE)
  \/ \E r \in Requests, case \in ValidateCases, sub \in SubValues,
        tclaim \in RequestTenantValues : AuthDone(r, case, sub, tclaim)
  \/ \E r \in Requests, db \in BOOLEAN, crash \in BOOLEAN :
       Endpoint(r, db, crash)
  \/ \E r \in Requests : Leave(r)
  \/ \E r \in Requests : Cancel(r)
  \/ \E r \in Requests : TaskDone(r)
  \/ \E e \in {"production", "development"} : Deploy(e)

SpecApp == Init /\ [][NextApp]_vars

\* the same with an ASGI layer in front of the application that may put a
\* user_context into request.state
NextAsgi ==
  \/ \E r \in Requests, preset \in BOOLEAN : Arrive(r, preset)
  \/ \E r \in Requests, case \in ValidateCases, sub \in SubValues,
        tclaim \in RequestTenantValues : AuthDone(r, case, sub, tclaim)
  \/ \E r \in Requests, db \in BOOLEAN, crash \in BOOLEAN :
       Endpoint(r, db, crash)
  \/ \E r \in Requests : Leave(r)
  \/ \E r \in Requests : Cancel(r)
  \/ \E r \in Requests : TaskDone(r)
  \/ \E e \in {"production", "development"} : Deploy(e)

SpecAsgi == Init /\ [][NextAsgi]_vars

\* =================================================================== claims

InRefresh(p) == proc[p].pc \in {"request", "backoff"}

LiveTasks == { b \in BgTasks : proc[b].pc \notin {"absent", "done"} }

\* a step in which the refresh of task p ends in the error handler
RefreshFails(p) == FetchGiveUp(p) \/ FetchBadBody(p)

\* C1: a caller of get_signing_key that found the snapshot expired or
\* missing and had to wait for a refresh in flight reuses the result of
\* that refresh: it sends no request of its own while the snapshot it went
\* to refresh is fresh.
C1_StampedePrevention ==
  \A c \in Callers :
    (InRefresh(c) /\ proc[c].site = 204) => IsCacheExpired(cache_age)

\* C2: at most one refresh (upstream fetch followed by the replacement of
\* the snapshot) is in progress, whoever started it, and the task that
\* runs it holds the lock.
C2_RefreshMutualExclusion ==
  /\ Cardinality({ p \in Procs : InRefresh(p) }) <= 1
  /\ \A p \in Procs : InRefresh(p) => lock = p

\* C2 witness: a background refresh is in flight and a caller waits for it
C2_Witness ==
  \E b \in BgTasks, c \in Callers :
    proc[b].pc = "request" /\ proc[c].pc = "acquire" /\ lock = b

\* C3 (under SpecUnreachable, where every attempt of every fetch fails
\* with an HTTP error and no cached copy ever exists): get_signing_key
\* fails with a fetch error, which is not the key-not-found error.
C3_FetchErrorSurfaced ==
  \A c \in Callers : proc[c].pc = "done" => call[c].out = "FetchError"

\* C4 as stated: while the background task refreshes a stale, unexpired
\* snapshot, every get_signing_key call returns without waiting.
C4_StaleServedEveryCall ==
  [][ \A c \in Callers, k \in Kids :
        (CallStart(c, k) /\ BackgroundRefreshingStale)
        => proc'[c].pc = "done" ]_vars

\* C4 amended: while the background task refreshes a stale, unexpired
\* snapshot, every get_signing_key call for a kid that is in the snapshot
\* is answered from the snapshot, without a refresh and without waiting.
C4_StaleServedHit ==
  [][ \A c \in Callers, k \in Kids :
        (CallStart(c, k) /\ BackgroundRefreshingStale /\ k \in DOMAIN keys)
        => /\ proc'[c].pc = "done"
           /\ call'[c].nrefresh = 0
           /\ call'[c].out = (IF keys[k].mat = "rsa" THEN "key"
                                                     ELSE "InvalidJWK")
           /\ keys' = keys /\ lock' = lock ]_vars

\* C4 witness: a call got its key while the background refresh of a stale,
\* unexpired snapshot was in flight
C4_Witness ==
  \E c \in Callers :
    /\ proc[c].pc = "done" /\ call[c].bgBusy /\ call[c].out = "key"
    /\ BackgroundRefreshingStale

\* C5 (under SpecHealthy, where every fetch succeeds): between two of its
\* refreshes the background task does not let the snapshot expire.
C5_ProactiveRefresh ==
  \A b \in BgTasks :
    (proc[b].pc = "sleep_ttl" /\ ~proc[b].cancel /\ cache_age # NoTime)
    => ~IsCacheExpired(cache_age)

\* C6: a refresh that fails leaves the kid-to-key mapping and the time of
\* the last successful fetch as they were.
C6_FailedRefreshKeepsSnapshot ==
  [][ \A p \in Procs :
        RefreshFails(p) => (keys' = keys /\ cache_age' = cache_age) ]_vars

\* C6 witness: a call found the snapshot expired, its refresh failed, and
\* it was served the key of the retained snapshot
C6_Witness ==
  \E c \in Callers :
    /\ proc[c].pc = "done" /\ call[c].nrefresh = 1 /\ call[c].out = "key"
    /\ cache_age # NoTime /\ cache_age >= TtlSeconds

\* C7: after a background refresh that failed, the background task sleeps
\* the cooldown before it tries again.
C7_CooldownAfterFailure ==
  [][ \A b \in BgTasks :
        RefreshFails(b) => proc'[b].timer = Cooldown ]_vars

\* C8: there is at most one background task; start_background_refresh
\* with a task running and stop_background_refresh with none running
\* change nothing.
C8_LifecycleIdempotent ==
  [][ /\ Cardinality(LiveTasks') <= 1
      /\ (StartBackgroundRefresh /\ LiveTasks # {}) => UNCHANGED vars
      /\ (StopBackgroundRefresh /\ LiveTasks = {}) => UNCHANGED vars ]_vars

\* C8 witness: a first task was stopped and has ended, a second one runs
C8_Witness ==
  \E b1, b2 \in BgTasks :
    /\ proc[b1].pc = "done"
    /\ proc[b2].pc \in {"sleep_ttl", "sleep_stale", "request"}
    /\ refresh_task = b2

\* C9: the snapshot is empty and without timestamp, or it is the kid index
\* of the document of one successful fetch, with a timestamp.
C9_SnapshotInvariant ==
  \/ cache_age = NoTime /\ keys = EmptyKeys /\ ~snapSrc.set
  \/ /\ cache_age # NoTime
     /\ snapSrc.set
     /\ snapSrc.doc \in Docs
     /\ keys = IndexByKid(snapSrc.doc)

\* C9 witness: one call made two fetches that returned different
\* documents, and the snapshot is the index of the second
C9_Witness ==
  \E c \in Callers :
    /\ proc[c].pc = "done" /\ call[c].nrefresh = 2 /\ call[c].out = "key"
    /\ snapSrc.set /\ keys = IndexByKid(snapSrc.doc) /\ cache_age = 0

\* C10: a call that finds the kid absent from an unexpired snapshot makes
\* one refresh; when that refresh ends the call ends, with the
\* key-not-found error if the kid is still absent.
C10_MissRefreshesOnce ==
  [][ \A c \in Callers :
        /\ \A k \in Kids :
             ( /\ CallStart(c, k)
               /\ ~(cache_age = NoTime \/ cache_age >= TtlSeconds)
               /\ k \notin DOMAIN keys )
             => /\ proc'[c].site = 212
                /\ proc'[c].pc \in {"request", "acquire"}
                /\ call'[c].nrefresh = 1
        /\ ( /\ proc[c].site = 212
             /\ proc[c].pc = "request"
             /\ proc'[c].pc \notin {"request", "backoff"} )
           => /\ proc'[c].pc = "done"
              /\ call'[c].nrefresh = call[c].nrefresh
              /\ (proc[c].kid \notin DOMAIN keys'
                    => call'[c].out = "KeyNotFound") ]_vars

\* C10 witness: a call ended with the key-not-found error after exactly
\* one refresh, which it made because of the miss
C10_Witness ==
  \E c \in Callers :
    /\ proc[c].pc = "done" /\ call[c].nrefresh = 1
    /\ call[c].out = "KeyNotFound"
    /\ cache_age # NoTime /\ cache_age < TtlSeconds

\* 2^n
RECURSIVE Pow2(_)
Pow2(n) == IF n = 0 THEN 1 ELSE 2 * Pow2(n - 1)

\* the fetch that task p runs in this state is over in the next: p left
\* _fetch_jwks, or it is in the first attempt of the next fetch of its call
FetchEnds(p) ==
  /\ proc'[p].pc # "backoff"
  /\ proc'[p].pc = "request"
       => (proc[p].site = 204 /\ proc'[p].site = 212 /\ proc'[p].attempt = 0)

\* C11: one fetch makes at most MaxRetries attempts; an HTTP error on an
\* attempt that is not the last is followed by a sleep of the current
\* backoff delay, which starts at InitialBackoff and doubles with every
\* failed attempt, and then by the next attempt; a successful attempt ends
\* the fetch; an HTTP error on the last attempt ends the fetch in the error
\* handler, without a sleep.
C11_RetryBackoff ==
  [][ \A p \in Procs :
        /\ InRefresh(p)
             => /\ proc[p].attempt < MaxRetries
                /\ proc[p].backoff = InitialBackoff * Pow2(proc[p].attempt)
        /\ (proc[p].pc = "backoff" /\ proc'[p].pc # "backoff"
             /\ ~proc[p].cancel)
             => /\ proc[p].timer = 0
                /\ proc'[p].pc = "request"
                /\ proc'[p].attempt = proc[p].attempt + 1
        \* the attempt in flight ends (every end of it changes p's record)
        /\ (proc[p].pc = "request" /\ proc'[p] # proc[p])
             => /\ FetchRetry(p)
                     => /\ proc[p].attempt < MaxRetries - 1
                        /\ proc'[p].pc = "backoff"
                        /\ proc'[p].timer =
                             InitialBackoff * Pow2(proc[p].attempt)
                /\ (\E d \in Docs : FetchOk(p, d)) => FetchEnds(p)
                /\ FetchGiveUp(p)
                     => /\ proc[p].attempt = MaxRetries - 1
                        /\ FetchEnds(p) ]_vars

\* C11 witness: the last attempt of a caller's fetch is in flight, after
\* two failed attempts and two waits, the second twice the first
C11_Witness ==
  \E c \in Callers :
    /\ proc[c].pc = "request" /\ proc[c].attempt = MaxRetries - 1
    /\ proc[c].backoff = InitialBackoff * Pow2(MaxRetries - 1)

\* C12: an error of an attempt that is not an HTTP error ends the fetch at
\* once, on whichever attempt it happens: no sleep and no further attempt
\* follow, the error handler of _refresh_cache runs.
C12_NonTransientEndsFetch ==
  [][ \A p \in Procs :
        FetchBadBody(p) => (FetchEnds(p) /\ keys' = keys) ]_vars

\* C12 witness: a call has ended whose one refresh came, under the lock,
\* after a background refresh that ended at this very instant: its fetch
\* took no time, so it ended in its first attempt and without a wait, and
\* not by a success, which would have made the snapshot new
C12_Witness ==
  \E c \in Callers, b \in BgTasks :
    /\ proc[c].pc = "done" /\ call[c].nrefresh = 1
    /\ proc[b].pc = "sleep_ttl" /\ proc[b].timer = TtlSeconds
    /\ cache_age # 0

\* ------------------------------------------------- validate_token claims

AllSteps == << "header", "key", "decode", "lifetime" >>

ValidatorErrors ==
  { "JWTValidationError", "TokenExpiredError", "TokenSignatureError",
    "TokenInvalidClaimError" }

\* the token of the call carries a kid in a header that can be parsed
HasKid == vt.tok.hdr = "ok" /\ vt.tok.kid # "absent"

\* the signature of the token of the call is the issuer's RS256 signature
\* over the payload the token carries, and the key cache gave the issuer's
\* key
GoodSignature ==
  /\ HasKid
  /\ vt.key = "issuerKey"
  /\ vt.tok.alg = "RS256" /\ vt.tok.sig = "issuer" /\ ~vt.tok.tampered

\* the token of the call is expired beyond the leeway
Expired == vt.tok.exp # Absent /\ vt.tok.exp + LeewaySeconds < vt.now

\* iss, aud or iat of the token of the call is not what the validator
\* expects
ClaimMismatch ==
  vt.tok.iss # "issuer" \/ vt.tok.aud # "client" \/ vt.tok.iat = NotInt

\* the lifetime of the token of the call is defined and over the maximum
LongLived ==
  /\ vt.tok.iat \notin {Absent, NotInt} /\ vt.tok.exp # Absent
  /\ vt.tok.exp - vt.tok.iat > SecondsPerMinute * MaxLifetimeMinutes

\* C13: validate_token enters its steps in the order header parse, key
\* resolution, signature and standard-claim verification, lifetime check;
\* a step that fails is the last one entered; a token without kid fails in
\* the header step with TokenInvalidClaimError and get_signing_key is not
\* called for it.
C13_StepOrder ==
  /\ vt.pc = "resolving" => vt.steps = << "header", "key" >>
  /\ vt.pc = "done" =>
       /\ \E n \in 1 .. Len(AllSteps) : vt.steps = SubSeq(AllSteps, 1, n)
       /\ IF vt.out.ok THEN vt.steps = AllSteps
                       ELSE vt.out.at = vt.steps[Len(vt.steps)]
       /\ (vt.tok.hdr = "ok" /\ vt.tok.kid = "absent")
            => /\ vt.out = [ok |-> FALSE, err |-> "TokenInvalidClaimError",
                            at |-> "header"]
               /\ vt.steps = << "header" >>
               /\ vt.key = "none"

\* C13 witness: a token without kid, signed by the issuer and otherwise
\* acceptable, was refused in the header step
C13_Witness ==
  /\ vt.pc = "done" /\ vt.tok.hdr = "ok" /\ vt.tok.kid = "absent"
  /\ vt.tok.alg = "RS256" /\ vt.tok.sig = "issuer" /\ ~vt.tok.tampered
  /\ vt.tok.iat = 1000 /\ vt.tok.exp = 1000
  /\ vt.tok.iss = "issuer" /\ vt.tok.aud = "client"
  /\ vt.out.err = "TokenInvalidClaimError" /\ vt.steps = << "header" >>

\* C14: when get_signing_key raises, whatever it raises, validate_token
\* fails with TokenSignatureError and jwt.decode is not called.
C14_KeyFailureIsSignatureError ==
  (vt.pc = "done" /\ Len(vt.steps) >= 2 /\ ~IsKey(vt.key))
  => /\ vt.out = [ok |-> FALSE, err |-> "TokenSignatureError", at |-> "key"]
     /\ vt.steps = << "header", "key" >>

\* C14 witness: the issuer's token, acceptable but for the key that the
\* cache did not find, was refused with TokenSignatureError
C14_Witness ==
  /\ vt.pc = "done" /\ vt.key = "ValueError" /\ vt.tok.kid = "k1"
  /\ vt.tok.alg = "RS256" /\ vt.tok.sig = "issuer" /\ ~vt.tok.tampered
  /\ vt.tok.iat = 1000 /\ vt.tok.exp = 1000
  /\ vt.tok.iss = "issuer" /\ vt.tok.aud = "client"
  /\ vt.out.err = "TokenSignatureError"

\* C15: a token whose payload is not the payload its signature was made
\* over is never accepted and never fails because of what its claims hold
\* (no TokenExpiredError, no TokenInvalidClaimError of the decode or the
\* lifetime step): once its header has given a kid it fails with
\* TokenSignatureError.
C15_SignatureGate ==
  (vt.pc = "done" /\ vt.tok.tampered)
  => /\ ~vt.out.ok
     /\ vt.out.at \in {"header", "key", "decode"}
     /\ vt.out.err # "TokenExpiredError"
     /\ vt.out.err = "TokenInvalidClaimError" => vt.out.at = "header"
     /\ HasKid => vt.out.err = "TokenSignatureError"

\* C15 witness: a token of the issuer whose payload was altered into an
\* expired one with another issuer and audience and an over-long lifetime,
\* checked with the issuer's key, was refused with TokenSignatureError
C15_Witness ==
  /\ vt.pc = "done" /\ vt.tok.tampered /\ vt.key = "issuerKey"
  /\ vt.tok.alg = "RS256" /\ vt.tok.sig = "issuer"
  /\ Expired /\ LongLived
  /\ vt.tok.iss = "other" /\ vt.tok.aud = "other"
  /\ vt.out.err = "TokenSignatureError" /\ vt.out.at = "decode"

\* C16: a token with exp - iat over the maximum is never accepted; when
\* nothing else is wrong with it (signature of the issuer, issuer and
\* audience as expected, not expired) it fails in the lifetime check with
\* TokenInvalidClaimError.
C16_LifetimeCap ==
  (vt.pc = "done" /\ LongLived)
  => /\ ~vt.out.ok
     /\ (GoodSignature /\ ~Expired /\ ~ClaimMismatch)
          => vt.out = [ok |-> FALSE, err |-> "TokenInvalidClaimError",
                       at |-> "lifetime"]

\* C16 witness: a token of the issuer with iat = now and exp in the future,
\* one second over the maximum lifetime, was refused by the lifetime check
C16_Witness ==
  /\ vt.pc = "done" /\ GoodSignature /\ ~ClaimMismatch
  /\ vt.tok.iat = vt.now /\ vt.tok.exp > vt.now
  /\ vt.tok.exp - vt.tok.iat = SecondsPerMinute * MaxLifetimeMinutes + 1
  /\ vt.out.err = "TokenInvalidClaimError" /\ vt.out.at = "lifetime"

\* C17: in the signature and standard-claim step the cause decides the
\* error.  TokenSignatureError there means a bad signature and nothing
\* else does; TokenExpiredError means an expired token,
\* TokenInvalidClaimError a mismatch of iss, aud or iat; a well-signed
\* token that is only expired fails with TokenExpiredError, one that only
\* has a mismatch with TokenInvalidClaimError; and a token with any of the
\* three causes does not pass the step.
C17_ErrorByCause ==
  (vt.pc = "done" /\ IsKey(vt.key))
  => /\ (~GoodSignature \/ Expired \/ ClaimMismatch) <=> vt.out.at = "decode"
     /\ vt.out.at = "decode"
          => /\ vt.out.err = "TokenSignatureError" <=> ~GoodSignature
             /\ vt.out.err = "TokenExpiredError" => Expired
             /\ vt.out.err = "TokenInvalidClaimError" => ClaimMismatch
             /\ (GoodSignature /\ Expired /\ ~ClaimMismatch)
                  => vt.out.err = "TokenExpiredError"
             /\ (GoodSignature /\ ClaimMismatch /\ ~Expired)
                  => vt.out.err = "TokenInvalidClaimError"

\* C17 witness: a token of the issuer, well signed, whose exp is one
\* second beyond the leeway, was refused with TokenExpiredError
C17_Witness ==
  /\ vt.pc = "done" /\ GoodSignature /\ ~ClaimMismatch
  /\ vt.tok.exp + LeewaySeconds + 1 = vt.now
  /\ vt.out.err = "TokenExpiredError" /\ vt.out.at = "decode"

\* C18: whatever the token and whatever get_signing_key gives, a
\* validate_token call that fails raises JWTValidationError or one of its
\* three subclasses.
C18_OwnErrorTypes ==
  vt.pc = "done" => (vt.out.ok \/ vt.out.err \in ValidatorErrors)

\* C18 witness: the library's JWTError for a token whose header cannot be
\* parsed, and the TypeError of the key lookup, reached the caller as
\* JWTValidationError and TokenSignatureError
C18_Witness ==
  /\ vt.pc = "done"
  /\ \/ vt.tok.hdr = "malformed" /\ vt.out.err = "JWTValidationError"
     \/ vt.key = "TypeError" /\ vt.out.err = "TokenSignatureError"

\* C19: an accepted token names RS256 in its header and carries the
\* issuer's RSA signature; a token that names HS256 is not accepted,
\* whatever key get_signing_key gave.
C19_OnlyRS256 ==
  vt.pc = "done"
  => /\ vt.out.ok => (vt.tok.alg = "RS256" /\ vt.tok.sig = "issuer")
     /\ vt.tok.alg = "HS256" => ~vt.out.ok

\* C19 witness: an HS256 token whose HMAC is keyed with the published
\* public key, with acceptable claims, was refused with
\* TokenSignatureError although the cache gave that key
C19_Witness ==
  /\ vt.pc = "done" /\ vt.tok.alg = "HS256" /\ vt.tok.sig = "hmac"
  /\ ~vt.tok.tampered /\ vt.key = "issuerKey"
  /\ ~ClaimMismatch /\ ~Expired /\ vt.tok.iat = 1000 /\ vt.tok.exp = 1000
  /\ vt.out.err = "TokenSignatureError"

\* ---------------------------------------------- extract_tenant_id claims

\* the claim holds a non-empty value
NonEmpty(v) ==
  \/ v.kind = "str" /\ Len(v.val) > 0
  \/ v.kind = "int" /\ v.val[1] # 0

\* the positions, in the configured order, of the claims that hold one
Candidates ==
  { i \in 1 .. Len(ClaimNames) : NonEmpty(te.claims[ClaimNames[i]]) }

FirstCandidate == CHOOSE i \in Candidates : \A j \in Candidates : i <= j

\* C20: when extract_tenant_id returns, it returns the value (as a string)
\* of the first claim, in the configured order, that holds a non-empty
\* value; the claims after that one have no part in the outcome, which is
\* that value or the format error of that value.
C20_FirstClaimWins ==
  (te.pc = "done" /\ Candidates # {})
  => LET v == te.claims[ClaimNames[FirstCandidate]]
     IN  /\ te.out.ok => te.out.val = ToStr(v)
         /\ ~te.out.ok
              => (te.validate /\ te.out.err = "InvalidTenantFormatError")
         /\ te.out = ExtractTenantId(
                       [n \in ClaimNameSet |->
                          IF n = ClaimNames[FirstCandidate]
                            THEN v ELSE ClaimValue("absent", << >>)],
                       te.validate)

\* C20 witness: the first claim is empty, the second and the third hold two
\* different valid values, and the value of the second was returned
C20_Witness ==
  /\ te.pc = "done" /\ te.validate
  /\ te.claims["tenant_id"] = ClaimValue("str", << >>)
  /\ te.claims["organization_id"] = ClaimValue("str", << "o", "r", "g" >>)
  /\ te.claims["org_id"] = ClaimValue("str", << "a", "_", "1" >>)
  /\ te.out.ok /\ te.out.val = << "o", "r", "g" >>

\* C21: extract_tenant_id fails with MissingTenantClaimError exactly when
\* none of the configured claim names holds a non-empty value in the claims.
C21_MissingExactlyWhenNone ==
  te.pc = "done"
  => ((~te.out.ok /\ te.out.err = "MissingTenantClaimError")
        <=> Candidates = {})

\* C21 witness: the first claim is present and empty, the others are
\* absent, and the call failed with the missing-claim error
C21_Witness ==
  /\ te.pc = "done" /\ te.validate
  /\ te.claims["tenant_id"] = ClaimValue("str", << >>)
  /\ te.claims["organization_id"] = ClaimValue("absent", << >>)
  /\ te.claims["org_id"] = ClaimValue("absent", << >>)
  /\ ~te.out.ok /\ te.out.err = "MissingTenantClaimError"

\* a string of MinLength to MaxLength characters of [a-zA-Z0-9_-]
WellFormed(v) ==
  /\ v.kind = "str"
  /\ Len(v.val) >= MinLength /\ Len(v.val) <= MaxLength
  /\ \A i \in 1 .. Len(v.val) : v.val[i] \in AllowedChars

\* C22: with format validation enabled, the value found is returned only if
\* it is a string of MinLength to MaxLength characters of [a-zA-Z0-9_-];
\* any other value found fails with InvalidTenantFormatError, never with
\* MissingTenantClaimError.
C22_FormatValidated ==
  (te.pc = "done" /\ te.validate /\ Candidates # {})
  => LET v == te.claims[ClaimNames[FirstCandidate]]
     IN  /\ te.out.ok => WellFormed(v)
         /\ ~WellFormed(v)
              => (~te.out.ok /\ te.out.err = "InvalidTenantFormatError")

\* get_current_user has run in request r (its outcome is in req[r].auth)
AfterAuth(r) == req[r].pc \in {"endpoint", "responding"}

\* the token of request r was accepted by validate_token and holds a sub
ValidWithUser(r) ==
  /\ AfterAuth(r)
  /\ req[r].auth.out.ok /\ req[r].auth.sub # "absent"

\* C23: in get_current_user, a validly signed token without tenant claim
\* is rejected with status 403 and code AUTH_005, and a token whose tenant
\* value has an invalid format is rejected with status 400; neither is
\* reported as 401 or as a 500 internal error.
C23_TenantErrorStatus ==
  \A r \in Requests :
    ValidWithUser(r)
    => LET t == req[r].auth.tclaim
       IN  /\ ~NonEmpty(t)
                => (req[r].resp.status = 403 /\ req[r].resp.code = "AUTH_005")
           /\ (NonEmpty(t) /\ ~WellFormed(t)) => req[r].resp.status = 400

\* C24: a failure of key resolution (no key found after the refresh, the
\* JWKS endpoint unreachable: get_signing_key raises ValueError) reaches
\* the client as a service-unavailable error, not as one of the
\* authentication failures the client causes.
C24_KeyFailureIsServiceUnavailable ==
  \A r \in Requests :
    (AfterAuth(r) /\ req[r].auth.key = "ValueError")
    => /\ req[r].resp.status = 503
       /\ req[r].resp.code \notin {"AUTH_001", "AUTH_003", "AUTH_004"}

\* the number of UserContext objects get_current_user constructed
Contexts(steps) ==
  Cardinality({ i \in 1 .. Len(steps) : steps[i] = "context" })

\* C25: a UserContext is constructed at most once per request and only
\* after token validation, user-id extraction and tenant extraction have
\* all succeeded, in that order; when one of them fails the request has no
\* UserContext (and an error response).
C25_IdentityAfterPipeline ==
  \A r \in Requests :
    AfterAuth(r)
    => LET a   == req[r].auth
           ext == ExtractTenantId(ClaimsOf(a.tclaim), TRUE)
           all == a.out.ok /\ a.sub # "absent" /\ ext.ok
       IN  /\ a.res.uc <=> all
           /\ Contexts(a.res.steps) = IF all THEN 1 ELSE 0
           /\ all => /\ a.res.steps
                          = << "validate", "user_id", "tenant", "context" >>
                     /\ a.res.user.tenant_id = ext.val
           /\ ~all => /\ a.res.user = NoUser
                      /\ req[r].pc = "responding"
                      /\ req[r].resp.status >= 400

\* C25 witness: one request has its UserContext and its endpoint is about
\* to run, another was refused for its missing sub claim
C25_Witness ==
  \E r1, r2 \in Requests :
    /\ req[r1].pc = "endpoint" /\ req[r1].auth.res.uc
    /\ req[r1].auth.res.user.tenant_id = << "o", "r", "g" >>
    /\ req[r2].pc = "responding" /\ req[r2].auth.out.ok
    /\ req[r2].auth.sub = "absent" /\ ~req[r2].auth.res.uc

\* C26: once get_current_user returned the UserContext of a request, the
\* tenant id of that UserContext is in tenant_id_ctx for the rest of the
\* handling of the request.
C26_TenantInLoggingContext ==
  \A r \in Requests :
    (AfterAuth(r) /\ req[r].auth.res.uc)
    => ctx[CtxOf(r)].tenant_id = req[r].auth.res.user.tenant_id

\* C27: when a request has ended, by a response or by an exception that
\* went through every layer, the context variables it set (request id,
\* user id, tenant id) are back at the values they had before the request.
C27_ContextCleanup ==
  \A r \in Requests :
    req[r].pc \in {"done", "idle"} => ctx[CtxOf(r)] = EmptyCtx

\* C27 witness: a request that had its tenant id and its request id in the
\* context while another layer worked has ended by an exception
C27_Witness ==
  \E r \in Requests :
    /\ req[r].pc = "done" /\ req[r].preset /\ req[r].how = "cancelled"
    /\ ctx[CtxOf(r)] = EmptyCtx

Active(r) == req[r].pc \in {"auth", "endpoint", "responding"}

\* the tenant ids request r is authenticated as
OwnTenants(r) ==
  (IF req[r].preset THEN {PresetUser(r).tenant_id} ELSE {})
  \cup (IF AfterAuth(r) /\ req[r].auth.res.uc
          THEN {req[r].auth.res.user.tenant_id} ELSE {})

\* what request r has read or would read now: the context of its task,
\* what its endpoint's log line took from it, and the tenant of its session
ReadsTenant(r) ==
  {ctx[CtxOf(r)].tenant_id, req[r].seen.tenant_id,
   req[r].session.current_tenant}
ReadsRequestId(r) == {ctx[CtxOf(r)].request_id, req[r].seen.request_id}

\* C28: whatever the interleaving of two requests in progress for two
\* different tenants, neither reads the tenant id or the request id of the
\* other from its logging or database-scoping context.
C28_RequestIsolation ==
  \A r1, r2 \in Requests :
    (r1 # r2 /\ Active(r1) /\ Active(r2))
    => /\ r2 \notin ReadsRequestId(r1)
       /\ \A t \in ReadsTenant(r1) :
            t \in OwnTenants(r2) => t \in OwnTenants(r1)

\* C28 witness: two requests of two tenants are in progress, the endpoint
\* of the first has written its log line with its own tenant and request
\* id, the second has its own in its context
C28_Witness ==
  \E r1, r2 \in Requests :
    /\ r1 # r2
    /\ req[r1].pc = "responding" /\ req[r1].preset
    /\ req[r1].seen.tenant_id = PresetUser(r1).tenant_id
    /\ req[r1].seen.request_id = r1
    /\ Active(r2) /\ req[r2].preset
    /\ ctx[CtxOf(r2)].tenant_id = PresetUser(r2).tenant_id
    /\ ctx[CtxOf(r2)].request_id = r2

\* C29: no query runs on a session from get_session before the session's
\* current-tenant variable was set to the tenant id of the request.
C29_TenantScopedSession ==
  \A r \in Requests :
    (req[r].pc = "responding" /\ req[r].session.queries > 0)
    => req[r].session.current_tenant = req[r].auth.res.user.tenant_id

\* C30: in production no error response holds the technical detail of the
\* failure behind it, those of get_current_user included.
C30_NoDetailInProduction ==
  \A r \in Requests :
    (environment = "production" /\ req[r].pc = "responding"
       /\ req[r].resp.status >= 400)
    => req[r].resp.detail # "internal"

\* C31: every response to a failed authentication or authorization
\* (expired token, bad signature, invalid claims, missing or malformed
\* tenant claim) has an error body that holds the request id of the request.
C31_ErrorBodyHasRequestId ==
  \A r \in Requests :
    (req[r].pc = "responding" /\ ~req[r].auth.res.uc)
    => /\ req[r].resp.request_id # 0
       /\ req[r].resp.request_id = ctx[CtxOf(r)].request_id

\* the snapshot answers a lookup of kid k without a refresh
Hit(k) ==
  /\ ~IsCacheExpired(cache_age)
  /\ k \in DOMAIN keys
  /\ keys[k].mat = "rsa"

\* C32: a background task that was stopped ends at the suspension point it
\* is at (a sleep, the lock, a request of a fetch) in its next step; that
\* step raises nothing into a caller (no call in progress changes) and
\* leaves the snapshot as it is; a lookup that the snapshot answers
\* succeeds after a task was stopped as it did before.
C32_CleanCancellation ==
  [][ /\ \A b \in BgTasks :
           (proc[b].cancel /\ proc'[b] # proc[b])
           => /\ proc'[b].pc = "done"
              /\ keys' = keys /\ cache_age' = cache_age
              /\ call' = call
              /\ \A c \in Callers : proc'[c] = proc[c]
      /\ \A c \in Callers :
           (proc[c].pc = "idle" /\ proc'[c].pc # "idle"
              /\ Hit(proc'[c].kid)
              /\ \E b \in BgTasks : proc[b].pc = "done")
           => /\ proc'[c].pc = "done"
              /\ call'[c].out = "key" /\ call'[c].nrefresh = 0 ]_vars

\* C32 witness: stop_background_refresh was called while the task is in a
\* request of a fetch, holding the lock, and the cache holds a snapshot
\* that answers lookups of k1
C32_Witness ==
  \E b \in BgTasks :
    /\ proc[b].cancel /\ proc[b].pc = "request" /\ lock = b
    /\ Hit("k1")

\* the positions of the claims whose value passes _validate_tenant_id
ValidCandidates ==
  { i \in Candidates : ValidateTenantId(te.claims[ClaimNames[i]]) = "none" }

FirstValidCandidate ==
  CHOOSE i \in ValidCandidates : \A j \in ValidCandidates : i <= j

C34_MiddlewareOrder ==
  \A r \in Requests :
    Active(r)
    => /\ MiddlewareStack = AddMiddlewareCalls
       /\ req[r].at_tenant.request_id = ctx[CtxOf(r)].request_id
       /\ \A i \in 1 .. Len(MiddlewareStack) :
            Layer("ExceptionHandlerMiddleware") <= i

\* C35: a get_signing_key call starts a synchronous refresh exactly when
\* the snapshot is expired (never fetched, or of age >= TTL) or the kid is
\* absent from it; an expired snapshot is refreshed before the lookup (the
\* lookup is made on the snapshot as it is when that refresh has ended);
\* a call for a kid that an unexpired snapshot holds returns without an
\* upstream request.
C35_RefreshIffExpiredOrAbsent ==
  [][ \A c \in Callers :
        /\ (proc[c].pc = "idle" /\ proc'[c].pc # "idle")
           => LET k       == proc'[c].kid
                  expired == cache_age = NoTime \/ cache_age >= TtlSeconds
                  absent  == k \notin DOMAIN keys
              IN  /\ (expired \/ absent)
                       <=> /\ proc'[c].pc \in {"request", "acquire"}
                           /\ call'[c].nrefresh = 1
                  /\ expired => proc'[c].site = 204
                  /\ (~expired /\ absent) => proc'[c].site = 212
                  /\ ~(expired \/ absent)
                       => /\ proc'[c].pc = "done"
                          /\ call'[c].nrefresh = 0
                          /\ call'[c].out \in {"key", "InvalidJWK"}
                          /\ keys' = keys /\ cache_age' = cache_age
        /\ ( /\ proc[c].pc = "request" /\ proc[c].site = 204
             /\ proc'[c] # proc[c]
             /\ proc'[c].pc \notin {"request", "backoff"} )
           => IF proc[c].kid \in DOMAIN keys'
                THEN /\ proc'[c].pc = "done"
                     /\ call'[c].nrefresh = call[c].nrefresh
                     /\ call'[c].out \in {"key", "InvalidJWK"}
                ELSE /\ proc'[c].site = 212
                     /\ proc'[c].pc \in {"request", "acquire"}
                     /\ call'[c].nrefresh = call[c].nrefresh + 1 ]_vars

\* C35 witness: the snapshot holds the kid and has reached the age of the
\* TTL, and a call for that kid is in the request of its expiry refresh
C35_Witness ==
  \E c \in Callers :
    /\ proc[c].pc = "request" /\ proc[c].site = 204
    /\ proc[c].kid \in DOMAIN keys
    /\ cache_age = TtlSeconds

\* C36: a start_background_refresh call leaves a background task running,
\* whatever start and stop calls came before it: in every state, either
\* the call made now creates a task, or the task it finds is one that goes
\* on running (no cancellation is pending on it).
C36_StartLeavesTaskRunning ==
  ~MayCreateTask(refresh_task, proc)
  => /\ proc[refresh_task].pc \notin {"absent", "done"}
     /\ ~proc[refresh_task].cancel

RequestsAtMost(c) ==
  IF proc[c].pc \in {"request", "backoff"}
    THEN (call[c].nrefresh - 1) * MaxRetries + proc[c].attempt + 1
    ELSE call[c].nrefresh * MaxRetries

InCall(c) == proc[c].pc \in {"acquire", "request", "backoff"}

\* C38: a get_signing_key call makes at most two refreshes (one for the
\* expired snapshot, one for the kid that is absent after it), each of at
\* most max_retries upstream requests, so at most 2 x max_retries requests;
\* and every call ends.
C38_BoundedCall ==
  /\ [](\A c \in Callers :
          /\ call[c].nrefresh <= 2
          /\ call[c].nrefresh = 2 => proc[c].site = 212
          /\ proc[c].attempt <= MaxRetries - 1
          /\ RequestsAtMost(c) <= 2 * MaxRetries)
  /\ \A c \in Callers : InCall(c) ~> (proc[c].pc = "done")

\* C38 witness: a call is in the last attempt of its second refresh
C38_Witness ==
  \E c \in Callers :
    /\ proc[c].pc = "request" /\ proc[c].site = 212
    /\ call[c].nrefresh = 2 /\ proc[c].attempt = MaxRetries - 1

\* C39: the lock is held only by a task that is inside a fetch: a refresh
\* that ends, by success, by a failed fetch or by the cancellation of its
\* task, leaves the lock free; and a call that queues on the lock gets it
\* (also behind a background task that is cancelled in its fetch).
C39_LockReleased ==
  /\ [](lock # NoOne => proc[lock].pc \in {"request", "backoff"})
  /\ \A c \in Callers : (proc[c].pc = "acquire") ~> (lock = c)

\* C39 witness: stop_background_refresh was called while the task is in a
\* request of a fetch, holding the lock, and a call is queued on the lock
C39_Witness ==
  \E b \in BgTasks, c \in Callers :
    /\ proc[b].cancel /\ proc[b].pc = "request" /\ lock = b
    /\ proc[c].pc = "acquire"

\* the token of the call has no iat or no exp claim
LacksTimestamp == vt.tok.iat = Absent \/ vt.tok.exp = Absent

\* C40: a token without iat or without exp is never accepted by
\* validate_token; when nothing else is wrong with it (signature of the
\* issuer, issuer and audience as expected, not expired) the lifetime
\* check refuses it with TokenInvalidClaimError.
C40_TimestampsRequired ==
  (vt.pc = "done" /\ LacksTimestamp)
  => /\ ~vt.out.ok
     /\ (GoodSignature /\ ~Expired /\ ~ClaimMismatch)
          => vt.out = [ok |-> FALSE, err |-> "TokenInvalidClaimError",
                       at |-> "lifetime"]

\* C40 witness: a token of the issuer with an iat and no exp, which would
\* never expire, was refused by the lifetime check
C40_Witness ==
  /\ vt.pc = "done" /\ GoodSignature /\ ~ClaimMismatch
  /\ vt.tok.iat = vt.now /\ vt.tok.exp = Absent
  /\ vt.steps = AllSteps
  /\ vt.out.err = "TokenInvalidClaimError" /\ vt.out.at = "lifetime"

====
